---- MODULE Spec2Model ----
(***************************************************************************)
(* Model of skyline_apiserver/api/v1/login.py: the four request handlers   *)
(* login, get_profile, logout and switch_project.  Every await / external  *)
(* call of a handler is one step that either returns or raises; the        *)
(* handlers' try/except/else blocks decide where control goes next.        *)
(***************************************************************************)
EXTENDS Integers, Sequences, FiniteSets, TLC

\* ---- bounds ----
MaxRequests == 2
NumProjects == 2
MaxScopes == 2
NumUuids == 2
NumExps == 1

Projects == 1..NumProjects
Uuids == 1..NumUuids
Exps == 1..NumExps
Regions == {"RegionOne"}
Users == {"alice"}

VARIABLES
  handler,              \* the handler serving the current request
  pc,                   \* position inside the handler ("done": returned/raised)
  credential,           \* login: schemas.Credential
  project_id,           \* switch_project: path parameter
  payload,              \* logout: JWT payload from deps.getJWTPayload
  project_scope,        \* login: enabled projects of the user
  listed,               \* login: result of unscope_client.auth.projects()
  project_scope_token,  \* login / switch_project
  token,                \* logout: parse_access_token(payload)
  profile,              \* local variable profile of every handler
  jwt,                  \* value of profile.toJWTPayload()
  response,             \* HTTP response: status, Set-Cookie, body
  cookie,               \* the session cookie held by the client
  ksRevoked,            \* keystone tokens revoked at the identity service
  dbRevoked,            \* revocation store: <<uuid, exp>> pairs
  calls,                \* external calls made while serving this request
  failed,               \* the external call that raised, or "none"
  nreq                  \* requests served so far

vars == <<handler, pc, credential, project_id, payload, project_scope, listed,
          project_scope_token, token, profile, jwt, response, cookie,
          ksRevoked, dbRevoked, calls, failed, nreq>>

locals == <<credential, project_id, payload, project_scope, listed,
            project_scope_token, token, profile, jwt>>

stores == <<ksRevoked, dbRevoked>>

\* ---- values ----
None == [kind |-> "None"]
Garbage == [kind |-> "garbage"]

Scope(id, en) == [id |-> id, enabled |-> en]
Scopes == {Scope(id, en) : id \in Projects, en \in BOOLEAN}
ScopeLists == UNION {[1..n -> Scopes] : n \in 0..MaxScopes}

Credentials == [kind : {"credential"}, region : Regions, username : Users]

\* keystone tokens: project 0 is the unscoped token of session.get_token()
UnscopedToken(user) == [kind |-> "token", user |-> user, project |-> 0]
ScopedToken(tok, pid) == [kind |-> "token", user |-> tok.user, project |-> pid]

EmptyResponse == [status |-> 0, set_cookie |-> None, delete_cookie |-> FALSE, body |-> None]

\* core.security.generate_profile: profile of a project-scoped token
generate_profile(keystone_token, region, uuid_value, exp) ==
  [kind |-> "profile", user |-> keystone_token.user, project |-> keystone_token.project,
   region |-> region, keystone_token |-> keystone_token, exp |-> exp,
   uuid |-> uuid_value, endpoints |-> None, projects |-> None]

\* schemas.Profile.toJWTPayload: the signed payload carries only these fields
toJWTPayload(p) ==
  [kind |-> "jwt", keystone_token |-> p.keystone_token, region |-> p.region,
   exp |-> p.exp, uuid |-> p.uuid]

\* core.security.parse_access_token: decode the payload
parse_access_token(pl) ==
  [kind |-> "payload", keystone_token |-> pl.keystone_token, region |-> pl.region,
   exp |-> pl.exp, uuid |-> pl.uuid]

\* core.security.generate_profile_by_token
generate_profile_by_token(tok) ==
  generate_profile(tok.keystone_token, tok.region, tok.uuid, tok.exp)

\* line 85: [scope for scope in project_scope if scope.enabled]
EnabledScopes_NoFilter(ps) == ps

EnabledScopes(ps) == SelectSeq(ps, LAMBDA s : s.enabled)

Call(name) == calls' = Append(calls, name)

\* a new request enters a handler: fresh locals and a fresh response
Enter(h, first, cred, pid, pl, prof) ==
  /\ pc = "done"
  /\ nreq < MaxRequests
  /\ nreq' = nreq + 1
  /\ handler' = h
  /\ pc' = first
  /\ calls' = <<>>
  /\ failed' = "none"
  /\ response' = EmptyResponse
  /\ jwt' = None
  /\ token' = None
  /\ project_scope_token' = None
  /\ project_scope' = <<>>
  /\ listed' = <<>>
  /\ credential' = cred
  /\ project_id' = pid
  /\ payload' = pl
  /\ profile' = prof
  /\ UNCHANGED <<cookie, ksRevoked, dbRevoked>>

Init ==
  /\ handler = "none"
  /\ pc = "done"
  /\ credential = None
  /\ project_id = 0
  /\ payload = None
  /\ project_scope = <<>>
  /\ listed = <<>>
  /\ project_scope_token = None
  /\ token = None
  /\ profile = None
  /\ jwt = None
  /\ response = EmptyResponse
  /\ cookie = None
  /\ ksRevoked = {}
  /\ dbRevoked = {}
  /\ calls = <<>>
  /\ failed = "none"
  /\ nreq = 0

\* ---------------------------------------------------------------------
\* login (lines 67-108)
\* ---------------------------------------------------------------------
LoginStart ==
  \E c \in Credentials :
    Enter("login", "get_endpoint", c, 0, None, None)

\* lines 69-73: utils.get_endpoint(region, "keystone", get_system_session())
LoginGetEndpoint ==
  /\ handler = "login" /\ pc = "get_endpoint"
  /\ Call("get_endpoint")
  /\ \/ pc' = "KeystoneClient" /\ failed' = failed
     \/ pc' = "login_except" /\ failed' = "get_endpoint"
  /\ UNCHANGED <<handler, locals, response, cookie, stores, nreq>>

\* lines 74-82: Password(...), osSession(...), KeystoneClient(...)
LoginKeystoneClient ==
  /\ handler = "login" /\ pc = "KeystoneClient"
  /\ Call("KeystoneClient")
  /\ \/ pc' = "auth.projects" /\ failed' = failed
     \/ pc' = "login_except" /\ failed' = "KeystoneClient"
  /\ UNCHANGED <<handler, locals, response, cookie, stores, nreq>>

\* lines 83-87: list the user's projects, keep the enabled ones, raise if none
LoginProjects ==
  /\ handler = "login" /\ pc = "auth.projects"
  /\ Call("auth.projects")
  /\ \/ /\ pc' = "login_except" /\ failed' = "auth.projects"
        /\ UNCHANGED <<listed, project_scope>>
     \/ \E ps \in ScopeLists :
          /\ listed' = ps
          /\ project_scope' = EnabledScopes(ps)
          /\ failed' = failed
          /\ pc' = IF project_scope' = <<>> THEN "login_except" ELSE "get_token"
  /\ UNCHANGED <<handler, credential, project_id, payload, project_scope_token,
                 token, profile, jwt, response, cookie, stores, nreq>>

\* line 90: session.get_token()
LoginGetToken ==
  /\ handler = "login" /\ pc = "get_token"
  /\ Call("get_token")
  /\ \/ /\ pc' = "get_project_scope_token" /\ failed' = failed
        /\ token' = UnscopedToken(credential.username)
     \/ pc' = "login_except" /\ failed' = "get_token" /\ token' = token
  /\ UNCHANGED <<handler, credential, project_id, payload, project_scope, listed,
                 project_scope_token, profile, jwt, response, cookie, stores, nreq>>

\* lines 89-93: get_project_scope_token(keystone_token, region, project_scope[0].id)
LoginScopeToken ==
  /\ handler = "login" /\ pc = "get_project_scope_token"
  /\ Call("get_project_scope_token")
  /\ \/ /\ pc' = "generate_profile" /\ failed' = failed
        /\ project_scope_token' = ScopedToken(token, project_scope[1].id)
     \/ /\ pc' = "login_except" /\ failed' = "get_project_scope_token"
        /\ project_scope_token' = project_scope_token
  /\ UNCHANGED <<handler, credential, project_id, payload, project_scope, listed,
                 token, profile, jwt, response, cookie, stores, nreq>>

\* lines 95-98: generate_profile(keystone_token, region): fresh uuid
LoginGenerateProfile ==
  /\ handler = "login" /\ pc = "generate_profile"
  /\ Call("generate_profile")
  /\ \/ /\ pc' = "get_endpoints" /\ failed' = failed
        /\ \E u \in Uuids, e \in Exps :
             profile' = generate_profile(project_scope_token, credential.region, u, e)
     \/ pc' = "login_except" /\ failed' = "generate_profile" /\ profile' = profile
  /\ UNCHANGED <<handler, credential, project_id, payload, project_scope, listed,
                 project_scope_token, token, jwt, response, cookie, stores, nreq>>

\* ---------------------------------------------------------------------
\* _patch_profile (lines 44-53), awaited by login, get_profile, switch_project
\* ---------------------------------------------------------------------
\* results of system.get_endpoints and system.get_projects
EndpointsOf(region) == [kind |-> "endpoints", region |-> region]
ProjectsOf(user) == {[kind |-> "projects", user |-> user, ids |-> ids] : ids \in {{}, Projects}}

\* line 46: profile.endpoints = await get_endpoints(region=profile.region)
PatchEndpoints_Continue ==
  /\ pc = "get_endpoints"
  /\ Call("get_endpoints")
  /\ \/ /\ pc' = "get_projects" /\ failed' = failed
        /\ profile' = [profile EXCEPT !.endpoints = EndpointsOf(profile.region)]
     \/ pc' = "get_projects" /\ failed' = "get_endpoints" /\ profile' = profile
  /\ UNCHANGED <<handler, credential, project_id, payload, project_scope, listed,
                 project_scope_token, token, jwt, response, cookie, stores, nreq>>

PatchEndpoints ==
  /\ pc = "get_endpoints"
  /\ Call("get_endpoints")
  /\ \/ /\ pc' = "get_projects" /\ failed' = failed
        /\ profile' = [profile EXCEPT !.endpoints = EndpointsOf(profile.region)]
     \/ pc' = "patch_except" /\ failed' = "get_endpoints" /\ profile' = profile
  /\ UNCHANGED <<handler, credential, project_id, payload, project_scope, listed,
                 project_scope_token, token, jwt, response, cookie, stores, nreq>>

\* lines 47, 53: profile.projects = await get_projects(...); return profile
PatchProjects ==
  /\ pc = "get_projects"
  /\ Call("get_projects")
  /\ \/ /\ pc' = IF handler = "get_profile" THEN "return_profile" ELSE "toJWTPayload"
        /\ failed' = failed
        /\ \E prjs \in ProjectsOf(profile.user) : profile' = [profile EXCEPT !.projects = prjs]
     \/ pc' = "patch_except" /\ failed' = "get_projects" /\ profile' = profile
  /\ UNCHANGED <<handler, credential, project_id, payload, project_scope, listed,
                 project_scope_token, token, jwt, response, cookie, stores, nreq>>

\* lines 48-52: except Exception: raise HTTPException(401).  In login and
\* switch_project the HTTPException is caught again by the handler's own
\* except clause; out of get_profile it is the response.
PatchExcept ==
  /\ pc = "patch_except"
  /\ \/ /\ handler = "get_profile"
        /\ pc' = "done"
        /\ response' = [EmptyResponse EXCEPT !.status = 401]
     \/ /\ handler = "login"
        /\ pc' = "login_except"
        /\ response' = response
     \/ /\ handler = "switch_project"
        /\ pc' = "switch_except"
        /\ response' = response
  /\ UNCHANGED <<handler, locals, cookie, stores, calls, failed, nreq>>

\* ---------------------------------------------------------------------
\* login, continued
\* ---------------------------------------------------------------------
\* line 107, argument: profile.toJWTPayload() (outside the try block)
LoginJWT ==
  /\ handler = "login" /\ pc = "toJWTPayload"
  /\ Call("toJWTPayload")
  /\ \/ pc' = "set_cookie" /\ failed' = failed /\ jwt' = toJWTPayload(profile)
     \/ pc' = "unhandled" /\ failed' = "toJWTPayload" /\ jwt' = jwt
  /\ UNCHANGED <<handler, credential, project_id, payload, project_scope, listed,
                 project_scope_token, token, profile, response, cookie, stores, nreq>>

\* lines 106-108: response.set_cookie(session_name, jwt); return profile
LoginSetCookie ==
  /\ handler = "login" /\ pc = "set_cookie"
  /\ response' = [status |-> 200, set_cookie |-> jwt, delete_cookie |-> FALSE,
                  body |-> profile]
  /\ cookie' = jwt
  /\ pc' = "done"
  /\ UNCHANGED <<handler, locals, stores, calls, failed, nreq>>

\* lines 101-105: except Exception: raise HTTPException(401)
LoginExcept_Swallow ==
  /\ handler = "login" /\ pc = "login_except"
  /\ response' = [EmptyResponse EXCEPT !.status = 200]
  /\ pc' = "done"
  /\ UNCHANGED <<handler, locals, cookie, stores, calls, failed, nreq>>

LoginExcept ==
  /\ handler = "login" /\ pc = "login_except"
  /\ response' = [EmptyResponse EXCEPT !.status = 401]
  /\ pc' = "done"
  /\ UNCHANGED <<handler, locals, cookie, stores, calls, failed, nreq>>

\* an exception raised in an else block (lines 107, 189) is not caught by the
\* handler: it propagates to the framework, which answers 500
Unhandled ==
  /\ pc = "unhandled"
  /\ response' = [EmptyResponse EXCEPT !.status = 500]
  /\ pc' = "done"
  /\ UNCHANGED <<handler, locals, cookie, stores, calls, failed, nreq>>

\* ---------------------------------------------------------------------
\* get_profile (lines 122-123)
\* ---------------------------------------------------------------------
\* the profile is deps.get_profile_update_jwt's, decoded from the session cookie
GetProfileStart ==
  /\ cookie # None
  /\ Enter("get_profile", "get_endpoints", None, 0, None,
           generate_profile_by_token(parse_access_token(cookie)))

\* line 123: return await _patch_profile(profile)
GetProfileReturn ==
  /\ handler = "get_profile" /\ pc = "return_profile"
  /\ response' = [EmptyResponse EXCEPT !.status = 200, !.body = profile]
  /\ pc' = "done"
  /\ UNCHANGED <<handler, locals, cookie, stores, calls, failed, nreq>>

\* ---------------------------------------------------------------------
\* logout (lines 136-151)
\* ---------------------------------------------------------------------
\* lines 136-141: payload is absent, unparsable, or the client's session cookie
LogoutStart ==
  \E p \in {None, Garbage, cookie} :
    Enter("logout", IF p = None THEN "delete_cookie" ELSE "parse_access_token",
          None, 0, p, None)

\* line 143: token = parse_access_token(payload)
LogoutParse ==
  /\ handler = "logout" /\ pc = "parse_access_token"
  /\ Call("parse_access_token")
  /\ \/ /\ payload.kind = "jwt"
        /\ pc' = "generate_profile_by_token" /\ failed' = failed
        /\ token' = parse_access_token(payload)
     \/ pc' = "logout_except" /\ failed' = "parse_access_token" /\ token' = token
  /\ UNCHANGED <<handler, credential, project_id, payload, project_scope, listed,
                 project_scope_token, profile, jwt, response, cookie, stores, nreq>>

\* line 144: profile = await generate_profile_by_token(token)
LogoutProfileByToken ==
  /\ handler = "logout" /\ pc = "generate_profile_by_token"
  /\ Call("generate_profile_by_token")
  /\ \/ /\ pc' = "generate_session" /\ failed' = failed
        /\ profile' = generate_profile_by_token(token)
     \/ pc' = "logout_except" /\ failed' = "generate_profile_by_token" /\ profile' = profile
  /\ UNCHANGED <<handler, credential, project_id, payload, project_scope, listed,
                 project_scope_token, token, jwt, response, cookie, stores, nreq>>

\* line 145: session = await generate_session(profile)
LogoutSession ==
  /\ handler = "logout" /\ pc = "generate_session"
  /\ Call("generate_session")
  /\ \/ pc' = "revoke_token" /\ failed' = failed
     \/ pc' = "logout_except" /\ failed' = "generate_session"
  /\ UNCHANGED <<handler, locals, response, cookie, stores, nreq>>

\* line 146: await revoke_token(profile, session, token.keystone_token)
LogoutKeystoneRevoke_ContinueOnFail ==
  /\ handler = "logout" /\ pc = "revoke_token"
  /\ Call("revoke_token")
  /\ \/ /\ pc' = "db_revoke_token" /\ failed' = failed
        /\ ksRevoked' = ksRevoked \cup {token.keystone_token}
     \/ pc' = "db_revoke_token" /\ failed' = "revoke_token" /\ ksRevoked' = ksRevoked
  /\ UNCHANGED <<handler, locals, response, cookie, dbRevoked, nreq>>

LogoutKeystoneRevoke ==
  /\ handler = "logout" /\ pc = "revoke_token"
  /\ Call("revoke_token")
  /\ \/ /\ pc' = "db_revoke_token" /\ failed' = failed
        /\ ksRevoked' = ksRevoked \cup {token.keystone_token}
     \/ pc' = "logout_except" /\ failed' = "revoke_token" /\ ksRevoked' = ksRevoked
  /\ UNCHANGED <<handler, locals, response, cookie, dbRevoked, nreq>>

\* line 147: await db_api.revoke_token(profile.uuid, profile.exp)
LogoutDbRevoke_NoWrite ==
  /\ handler = "logout" /\ pc = "db_revoke_token"
  /\ Call("db_revoke_token")
  /\ \/ /\ pc' = "delete_cookie" /\ failed' = failed
        /\ dbRevoked' = dbRevoked
     \/ pc' = "logout_except" /\ failed' = "db_revoke_token" /\ dbRevoked' = dbRevoked
  /\ UNCHANGED <<handler, locals, response, cookie, ksRevoked, nreq>>

LogoutDbRevoke ==
  /\ handler = "logout" /\ pc = "db_revoke_token"
  /\ Call("db_revoke_token")
  /\ \/ /\ pc' = "delete_cookie" /\ failed' = failed
        /\ dbRevoked' = dbRevoked \cup {<<profile.uuid, profile.exp>>}
     \/ pc' = "logout_except" /\ failed' = "db_revoke_token" /\ dbRevoked' = dbRevoked
  /\ UNCHANGED <<handler, locals, response, cookie, ksRevoked, nreq>>

\* lines 148-149: except Exception as e: LOG.debug(str(e))
LogoutExcept_Raise ==
  /\ handler = "logout" /\ pc = "logout_except"
  /\ pc' = "done"
  /\ response' = [EmptyResponse EXCEPT !.status = 401]
  /\ UNCHANGED <<handler, locals, cookie, stores, calls, failed, nreq>>

LogoutExcept ==
  /\ handler = "logout" /\ pc = "logout_except"
  /\ pc' = "delete_cookie"
  /\ UNCHANGED <<handler, locals, response, cookie, stores, calls, failed, nreq>>

\* lines 150-151: response.delete_cookie(session_name); return OK("Logout OK")
LogoutDeleteCookie ==
  /\ handler = "logout" /\ pc = "delete_cookie"
  /\ response' = [status |-> 200, set_cookie |-> None, delete_cookie |-> TRUE,
                  body |-> [kind |-> "OK", message |-> "Logout OK"]]
  /\ cookie' = None
  /\ pc' = "done"
  /\ UNCHANGED <<handler, locals, stores, calls, failed, nreq>>

\* ---------------------------------------------------------------------
\* switch_project (lines 165-190)
\* ---------------------------------------------------------------------
\* the profile is deps.get_profile's, decoded from the session cookie
SwitchStart ==
  \E pid \in Projects :
    /\ cookie # None
    /\ Enter("switch_project", "get_project_scope_token", None, pid, None,
             generate_profile_by_token(parse_access_token(cookie)))

\* lines 171-175: get_project_scope_token(profile.keystone_token, region, project_id)
SwitchScopeToken ==
  /\ handler = "switch_project" /\ pc = "get_project_scope_token"
  /\ Call("get_project_scope_token")
  /\ \/ /\ pc' = "generate_profile" /\ failed' = failed
        /\ project_scope_token' = ScopedToken(profile.keystone_token, project_id)
     \/ /\ pc' = "switch_except" /\ failed' = "get_project_scope_token"
        /\ project_scope_token' = project_scope_token
  /\ UNCHANGED <<handler, credential, project_id, payload, project_scope, listed,
                 token, profile, jwt, response, cookie, stores, nreq>>

\* lines 177-181: generate_profile(keystone_token, region, uuid_value=profile.uuid)
SwitchGenerateProfile ==
  /\ handler = "switch_project" /\ pc = "generate_profile"
  /\ Call("generate_profile")
  /\ \/ /\ pc' = "get_endpoints" /\ failed' = failed
        /\ \E e \in Exps :
             profile' = generate_profile(project_scope_token, profile.region, profile.uuid, e)
     \/ pc' = "switch_except" /\ failed' = "generate_profile" /\ profile' = profile
  /\ UNCHANGED <<handler, credential, project_id, payload, project_scope, listed,
                 project_scope_token, token, jwt, response, cookie, stores, nreq>>

\* line 189, argument: profile.toJWTPayload() (outside the try block)
SwitchJWT ==
  /\ handler = "switch_project" /\ pc = "toJWTPayload"
  /\ Call("toJWTPayload")
  /\ \/ pc' = "set_cookie" /\ failed' = failed /\ jwt' = toJWTPayload(profile)
     \/ pc' = "unhandled" /\ failed' = "toJWTPayload" /\ jwt' = jwt
  /\ UNCHANGED <<handler, credential, project_id, payload, project_scope, listed,
                 project_scope_token, token, profile, response, cookie, stores, nreq>>

\* lines 188-190: response.set_cookie(session_name, jwt); return profile
SwitchSetCookie ==
  /\ handler = "switch_project" /\ pc = "set_cookie"
  /\ response' = [status |-> 200, set_cookie |-> jwt, delete_cookie |-> FALSE,
                  body |-> profile]
  /\ cookie' = jwt
  /\ pc' = "done"
  /\ UNCHANGED <<handler, locals, stores, calls, failed, nreq>>

\* lines 183-187: except Exception: raise HTTPException(401)
SwitchExcept_SetsCookie ==
  /\ handler = "switch_project" /\ pc = "switch_except"
  /\ response' = [EmptyResponse EXCEPT !.status = 401, !.set_cookie = toJWTPayload(profile)]
  /\ cookie' = toJWTPayload(profile)
  /\ pc' = "done"
  /\ UNCHANGED <<handler, locals, stores, calls, failed, nreq>>

SwitchExcept ==
  /\ handler = "switch_project" /\ pc = "switch_except"
  /\ response' = [EmptyResponse EXCEPT !.status = 401]
  /\ pc' = "done"
  /\ UNCHANGED <<handler, locals, cookie, stores, calls, failed, nreq>>

Next ==
  \/ LoginStart \/ LoginGetEndpoint \/ LoginKeystoneClient \/ LoginProjects
  \/ LoginGetToken \/ LoginScopeToken \/ LoginGenerateProfile
  \/ PatchEndpoints \/ PatchProjects \/ PatchExcept
  \/ LoginJWT \/ LoginSetCookie \/ LoginExcept \/ Unhandled
  \/ GetProfileStart \/ GetProfileReturn
  \/ LogoutStart \/ LogoutParse \/ LogoutProfileByToken \/ LogoutSession
  \/ LogoutKeystoneRevoke \/ LogoutDbRevoke \/ LogoutExcept \/ LogoutDeleteCookie
  \/ SwitchStart \/ SwitchScopeToken \/ SwitchGenerateProfile
  \/ SwitchJWT \/ SwitchSetCookie \/ SwitchExcept

Spec == Init /\ [][Next]_vars

TypeOK ==
  /\ handler \in {"none", "login", "get_profile", "logout", "switch_project"}
  /\ response.status \in {0, 200, 401, 500}
  /\ nreq \in 0..MaxRequests

\* ---------------------------------------------------------------------
\* properties
\* ---------------------------------------------------------------------
Made(name) == \E i \in 1..Len(calls) : calls[i] = name

NoRepeat(sq) == \A i, j \in 1..Len(sq) : sq[i] = sq[j] => i = j

LastN(sq, n) == [i \in 1..n |-> sq[Len(sq) - n + i]]

CookieHandlers == {"login", "switch_project"}

\* C1 as stated: in every one of the four handlers, an external call that
\* raises makes the outcome of the request a 401 response.
C1_EveryFailureIs401 ==
  (pc = "done" /\ failed # "none") => response.status = 401

\* C1 amended: in login, get_profile and switch_project, an external call
\* inside the handler's try block (every call except the toJWTPayload of the
\* else block) that raises makes the outcome a 401 response without a cookie.
C1_TryFailureIs401 ==
  (pc = "done" /\ handler \in {"login", "get_profile", "switch_project"}
     /\ failed \notin {"none", "toJWTPayload"})
  => (response.status = 401 /\ response.set_cookie = None)

C1_Witness ==
  /\ handler = "login" /\ pc = "done"
  /\ failed = "get_projects"
  /\ response.status = 401

\* C2: in login and switch_project the cookie is set iff the request succeeds:
\* set_cookie comes only after the scope token, generate_profile and both
\* calls of _patch_profile succeeded, its value is the JWT payload of the
\* profile that is returned, and a request that does not end in 200 sets no
\* cookie and leaves the client's cookie as it was.
C2_State ==
  handler \in CookieHandlers =>
    /\ pc = "done" => (response.set_cookie # None <=> response.status = 200)
    /\ (pc = "set_cookie" \/ (pc = "done" /\ response.status = 200)) =>
         /\ failed = "none"
         /\ Len(calls) >= 5
         /\ LastN(calls, 5) = <<"get_project_scope_token", "generate_profile",
                               "get_endpoints", "get_projects", "toJWTPayload">>
         /\ profile.endpoints # None /\ profile.projects # None
    /\ (pc = "done" /\ response.status = 200) =>
         /\ response.body = profile
         /\ response.set_cookie = toJWTPayload(response.body)
         /\ cookie = response.set_cookie
    /\ (pc = "done" /\ response.status # 200) =>
         /\ response.set_cookie = None
         /\ ~response.delete_cookie

C2_Step ==
  (handler' \in CookieHandlers /\ cookie' # cookie) =>
    (pc' = "done" /\ response'.status = 200 /\ cookie' = response'.set_cookie)

C2_CookieIffSuccess == [](C2_State) /\ [][C2_Step]_vars

C2_Witness ==
  /\ handler = "switch_project" /\ pc = "done"
  /\ failed = "get_projects"
  /\ response.status = 401 /\ response.set_cookie = None
  /\ cookie # None
  /\ profile.keystone_token # cookie.keystone_token

\* C3: a logout with a JWT payload in which no external call fails has revoked
\* the payload's keystone token at the identity service and recorded
\* (profile.uuid, profile.exp) in the revocation store before the cookie is
\* deleted and the OK response is returned.
C3_LogoutRevokes ==
  (handler = "logout" /\ pc \in {"delete_cookie", "done"}
     /\ payload.kind = "jwt" /\ failed = "none")
  => /\ payload.keystone_token \in ksRevoked
     /\ <<profile.uuid, profile.exp>> \in dbRevoked
     /\ Made("revoke_token") /\ Made("db_revoke_token")
     /\ pc = "delete_cookie" => (response.status = 0 /\ ~response.delete_cookie)
     /\ pc = "done" => (response.status = 200 /\ response.delete_cookie)

C3_Witness ==
  /\ handler = "logout" /\ pc = "done"
  /\ payload.kind = "jwt" /\ failed = "none"
  /\ payload.uuid = NumUuids
  /\ response.delete_cookie

\* C4: within one request no external call is made twice, and a call that
\* raises is the last external call of the request.
C4_SingleShot ==
  /\ NoRepeat(calls)
  /\ failed # "none" => (Len(calls) > 0 /\ calls[Len(calls)] = failed)

C4_Witness ==
  /\ handler = "login" /\ pc = "done"
  /\ failed = "get_endpoints"
  /\ Len(calls) = 7

\* C5: logout ends with the cookie deleted and 200 "Logout OK" whatever the
\* payload and whichever external call raises; it never answers anything else.
C5_LogoutAlwaysOK ==
  handler = "logout" =>
    /\ response.status \in {0, 200}
    /\ pc = "done" =>
         /\ response.status = 200
         /\ response.delete_cookie
         /\ response.body = [kind |-> "OK", message |-> "Logout OK"]
         /\ cookie = None

C5_Witness ==
  /\ handler = "logout" /\ pc = "done"
  /\ failed = "db_revoke_token"
  /\ response.status = 200 /\ response.delete_cookie

\* C6: in logout the revocation store is written only after
\* parse_access_token, generate_profile_by_token, generate_session and the
\* keystone revoke_token returned; when the keystone revocation raises, the
\* store stays as it was and the cookie is still deleted.
C6_State ==
  handler = "logout" =>
    /\ (pc = "db_revoke_token" \/ Made("db_revoke_token")) =>
         /\ Len(calls) >= 4
         /\ SubSeq(calls, 1, 4) = <<"parse_access_token", "generate_profile_by_token",
                                    "generate_session", "revoke_token">>
         /\ failed \in {"none", "db_revoke_token"}
         /\ token.keystone_token \in ksRevoked
    /\ (pc = "done" /\ failed = "revoke_token") =>
         (response.delete_cookie /\ cookie = None /\ ~Made("db_revoke_token"))

C6_Step ==
  /\ dbRevoked' # dbRevoked =>
       (handler = "logout" /\ pc = "db_revoke_token" /\ failed' = "none")
  /\ (failed = "revoke_token" \/ failed' = "revoke_token") => dbRevoked' = dbRevoked

C6_DbRevokeAfterKeystone == [](C6_State) /\ [][C6_Step]_vars

C6_Witness ==
  /\ handler = "logout" /\ pc = "done"
  /\ failed = "revoke_token"
  /\ <<profile.uuid, profile.exp>> \notin dbRevoked
  /\ response.delete_cookie

\* C7: a login whose project list has no enabled project (empty or all
\* disabled) ends in 401 without requesting a project-scoped token, building a
\* profile or setting a cookie.
C7_NoEnabledProject ==
  (handler = "login" /\ Made("auth.projects") /\ failed # "auth.projects"
     /\ \A i \in 1..Len(listed) : ~listed[i].enabled)
  => /\ pc \in {"login_except", "done"}
     /\ ~Made("get_token") /\ ~Made("get_project_scope_token")
     /\ ~Made("generate_profile")
     /\ project_scope_token = None /\ profile = None
     /\ pc = "done" => (response.status = 401 /\ response.set_cookie = None)

C7_Witness ==
  /\ handler = "login" /\ pc = "done"
  /\ Len(listed) = MaxScopes
  /\ \A i \in 1..Len(listed) : ~listed[i].enabled
  /\ failed = "none"
  /\ response.status = 401
====
